---- MODULE Spec2Model ----
(***************************************************************************)
(* Model of uv_magic_uv/muv_cpuv_ops.py (Magic UV 4.5): the copy/paste UV  *)
(* operators.  The state is the meshes of the scene's objects (per-loop UV *)
(* and pin, per-edge seam, presence of a UV layer) and the two session     *)
(* stores scene.muv_props.cpuv and scene.muv_props.cpuv_obj.  Each         *)
(* operator's execute() is one action.  Selection flags, the active object *)
(* and the operator properties belong to the host and are inputs of the    *)
(* actions.                                                                *)
(*                                                                         *)
(* UV coordinates are points of the integer lattice.  The image-editor     *)
(* paste is modelled in exact arithmetic for reference edges that are      *)
(* parallel to an axis: angles are counted in quarter turns.               *)
(***************************************************************************)
EXTENDS Integers, Sequences, FiniteSets, TLC

\* ------------------------------------------------------------------ bounds
\* objects of the scene (bpy.data.objects)
NumObjs == 4
\* copy operators called in one session
MaxCopies == 2
\* paste operators called in one session
MaxPastes == 1
\* largest rotate_copied_uv tried (the property allows up to 30)
MaxRotate == 3
\* UV coordinates stay within -MaxCoord..MaxCoord
MaxCoord == 8

\* --------------------------------------------------------------- constants
\* math.pi * 2, counted in quarter turns
FullTurn == 4

Objs == 1..NumObjs

\* name of the one UV map an object with a UV layer has
UVMapName == "UVMap"

\* ---------------------------------------------------------------- topology
\* bm.faces of an object: for every face the edge that follows each of its
\* loops (l.edge), in winding order.  Four shapes, repeated over the objects:
\* two quads and a triangle, a triangle between two quads, two quads and a
\* triangle joined along other edges, and two quads.
Shape(o) == (o - 1) % 4

FaceEdges(o) ==
    CASE Shape(o) = 0 -> << <<1, 2, 3, 4>>, <<3, 5, 6, 7>>, <<6, 8, 9>> >>
      [] Shape(o) = 1 -> << <<1, 2, 3, 4>>, <<4, 5, 6>>, <<7, 5, 8, 9>> >>
      [] Shape(o) = 2 -> << <<1, 2, 3, 4>>, <<5, 2, 6, 7>>, <<7, 8, 9>> >>
      [] OTHER        -> << <<1, 2, 3, 4>>, <<5, 6, 7, 1>> >>

NumEdges(o) == IF Shape(o) = 3 THEN 7 ELSE 9

NumFaces(o) == Len(FaceEdges(o))

NumLoops(o, f) == Len(FaceEdges(o)[f])

\* ------------------------------------------------------------ 2D vectors
VAdd(a, b) == <<a[1] + b[1], a[2] + b[2]>>

VSub(a, b) == <<a[1] - b[1], a[2] - b[2]>>

VScale(a, k) == <<a[1] * k, a[2] * k>>

Abs(x) == IF x < 0 THEN -x ELSE x

AxisAligned(v) == v[1] = 0 \/ v[2] = 0

\* Vector.length of a vector parallel to an axis
VLength(v) == Abs(v[1]) + Abs(v[2])

\* the unit vector of direction d (quarter turns)
Dir(d) ==
    CASE d % 4 = 0 -> <<1, 0>>
      [] d % 4 = 1 -> <<0, 1>>
      [] d % 4 = 2 -> <<-1, 0>>
      [] OTHER     -> <<0, -1>>

\* ------------------------------------------------------------ initial mesh
\* Every face starts as a square (or the half of one) of the UV plane with
\* its own origin, side and orientation.
InitOrigin(o, f) == <<f + o - 2, o - 1>>

InitSide(o, f) == IF (o + f) % 2 = 0 THEN 1 ELSE 2

InitDir(o, f) == (o + 2 * f) % 4

InitFaceUV(o, f) ==
    LET p0 == InitOrigin(o, f)
        p1 == VAdd(p0, VScale(Dir(InitDir(o, f)), InitSide(o, f)))
        p3 == VAdd(p0, VScale(Dir(InitDir(o, f) + 1), InitSide(o, f)))
        p2 == VAdd(p1, VSub(p3, p0))
    IN  IF NumLoops(o, f) = 4 THEN <<p0, p1, p2, p3>> ELSE <<p0, p1, p3>>

\* the objects of the second shape start without a UV layer
InitHasUV(o) == Shape(o) # 1

InitUV(o) == [f \in 1..NumFaces(o) |-> InitFaceUV(o, f)]

InitPin(o) ==
    [f \in 1..NumFaces(o) |->
        [c \in 1..NumLoops(o, f) |-> (o + f + c * c) % 3 = 0]]

InitSeam(o) == [e \in 1..NumEdges(o) |-> (e + o) % 2 = 0]

\* a layer made by bm.loops.layers.uv.verify(): zero UVs, nothing pinned
BlankUV(o) ==
    [f \in 1..NumFaces(o) |-> [c \in 1..NumLoops(o, f) |-> <<0, 0>>]]

BlankPin(o) ==
    [f \in 1..NumFaces(o) |-> [c \in 1..NumLoops(o, f) |-> FALSE]]

\* ------------------------------------------------------------------- state
VARIABLES
    hasUV,      \* hasUV[o]: bm.loops.layers.uv of object o is not empty
    uv,         \* uv[o][f][c]: l[uv_layer].uv of loop c of face f
    pin,        \* pin[o][f][c]: l[uv_layer].pin_uv
    seam,       \* seam[o][e]: edge.seam
    cpuv,       \* scene.muv_props.cpuv  (src_uvs, src_pin_uvs, src_seams)
    cpuv_obj,   \* scene.muv_props.cpuv_obj
    last,       \* the operator call that produced this state, and its result
    rt,         \* progress of a copy / paste / copy round trip; at stage 0,
                \* B is the store a capture without selection has emptied
    calls       \* number of copy and of paste operators called so far

vars == <<hasUV, uv, pin, seam, cpuv, cpuv_obj, last, rt, calls>>

mesh == <<hasUV, uv, pin, seam>>

EmptyStore == [src_uvs |-> <<>>, src_pin_uvs |-> <<>>, src_seams |-> <<>>]

NoCall ==
    [op |-> "none", obj |-> 0, objsel |-> {}, faces |-> <<>>, uv_map |-> "",
     strategy |-> "", flip |-> FALSE, rotate |-> 0, copy_seams |-> FALSE,
     result |-> "", msg |-> ""]

\* one more copy (paste) operator call, within the session's budget
CountCopy ==
    /\ calls.copies < MaxCopies
    /\ calls' = [calls EXCEPT !.copies = @ + 1]

CountPaste ==
    /\ calls.pastes < MaxPastes
    /\ calls' = [calls EXCEPT !.pastes = @ + 1]

NoTrip == [stage |-> 0, B |-> EmptyStore, obj |-> 0, faces |-> <<>>]

\* ------------------------------------------------------------ host inputs
\* the selected faces of an object, in bm.faces order
RECURSIVE SortedSeq(_)
SortedSeq(S) ==
    IF S = {} THEN <<>>
    ELSE LET m == CHOOSE x \in S : \A y \in S : x <= y
         IN  <<m>> \o SortedSeq(S \ {m})

FaceSelections(o) == SUBSET (1..NumFaces(o))

\* the UV maps the menus offer for object o: "" is [Default]
UVMapChoices(o) == IF hasUV[o] THEN {"", UVMapName} ELSE {""}

\* l[uv_layer].select of every loop: all loops selected, or all but the
\* first loop of the second face
LoopSelections(o) ==
    {[f \in 1..NumFaces(o) |-> 1..NumLoops(o, f)],
     [f \in 1..NumFaces(o) |->
         IF f = 2 THEN 2..NumLoops(o, f) ELSE 1..NumLoops(o, f)]}

\* --------------------------------------------------------- face-set copy
\* [l.edge.seam for l in face.loops]
FaceSeams(sm, o, f) == [c \in 1..NumLoops(o, f) |-> sm[o][FaceEdges(o)[f][c]]]

\* a variant that leaves the store alone when no face is selected; C12 tells
\* it from Capture
Capture_KeepsOnEmpty(o, fs) ==
    IF fs = <<>> THEN cpuv
    ELSE [src_uvs     |-> [i \in 1..Len(fs) |-> uv[o][fs[i]]],
          src_pin_uvs |-> [i \in 1..Len(fs) |-> pin[o][fs[i]]],
          src_seams   |-> [i \in 1..Len(fs) |-> FaceSeams(seam, o, fs[i])]]

\* the three lists filled by the loop over the faces `fs`
Capture(o, fs) ==
    [src_uvs     |-> [i \in 1..Len(fs) |-> uv[o][fs[i]]],
     src_pin_uvs |-> [i \in 1..Len(fs) |-> pin[o][fs[i]]],
     src_seams   |-> [i \in 1..Len(fs) |-> FaceSeams(seam, o, fs[i])]]

CopyUV(o, uv_map, sel) ==
    LET fs   == SortedSeq(sel)
        call == [NoCall EXCEPT !.op = "CopyUV", !.obj = o, !.faces = fs,
                               !.uv_map = uv_map]
    IN  /\ CountCopy
        /\ UNCHANGED <<mesh, cpuv_obj>>
        /\ IF uv_map = "" /\ ~hasUV[o]
           THEN /\ cpuv' = cpuv
                /\ last' = [call EXCEPT !.result = "CANCELLED",
                                        !.msg = "NoAttributeLayer"]
                /\ rt' = NoTrip
           ELSE /\ cpuv' = Capture(o, fs)
                /\ IF fs = <<>>
                   THEN /\ last' = [call EXCEPT !.result = "CANCELLED",
                                                !.msg = "NoSelection"]
                        /\ rt' = [NoTrip EXCEPT !.B = cpuv]
                   ELSE /\ last' = [call EXCEPT !.result = "FINISHED"]
                        /\ rt' = IF rt.stage = 2 /\ rt.obj = o /\ rt.faces = fs
                                 THEN [rt EXCEPT !.stage = 3]
                                 ELSE [stage |-> 1, B |-> Capture(o, fs),
                                       obj |-> o, faces |-> fs]

\* -------------------------------------------------------- face-set paste
TLAMin(a, b) == IF a < b THEN a ELSE b

\* list.reverse()
Reverse(s) == [i \in 1..Len(s) |-> s[Len(s) + 1 - i]]

\* `r` times: x = list.pop(); list.insert(0, x)
RECURSIVE RotateRight(_, _)
RotateRight(s, r) ==
    IF r = 0 \/ Len(s) = 0 THEN s
    ELSE RotateRight(<<s[Len(s)]>> \o SubSeq(s, 1, Len(s) - 1), r - 1)

\* a variant that rotates before it flips; C5 tells it from FlipRotate
FlipRotate_RotateFirst(s, flip, rotate) ==
    LET t == RotateRight(s, rotate) IN IF flip THEN Reverse(t) ELSE t

\* the copy of one source list after "flip UVs" and "rotate UVs"
FlipRotate(s, flip, rotate) ==
    RotateRight(IF flip THEN Reverse(s) ELSE s, rotate)

\* a variant that wraps one position late; C1 tells it from SrcIndex
SrcIndex_WrapsLate(strategy, i, n) ==
    IF strategy = "N_N" THEN i ELSE (i % n) + 1

\* the index (from 1) into a source list of length n that the destination
\* face at position i (from 1) reads: [i] for N_N, [i % len] for N_M
SrcIndex(strategy, i, n) ==
    IF strategy = "N_N" THEN i ELSE ((i - 1) % n) + 1

\* the mesh data of one object
ObjMesh(o) == [uv |-> uv[o], pin |-> pin[o], seam |-> seam[o]]

\* a variant that writes the UVs only; C3 tells it from WriteFace
WriteFace_UVOnly(M, o, f, suvs, spuvs, ss, copy_seams) ==
    LET n == TLAMin(NumLoops(o, f), Len(suvs))
    IN  [uv   |-> [M.uv EXCEPT ![f] =
                      [c \in 1..NumLoops(o, f) |->
                          IF c <= n THEN suvs[c] ELSE M.uv[f][c]]],
         pin  |-> M.pin,
         seam |-> M.seam]

\* "paste UVs": zip(bm.faces[idx].loops, suvs_fr, spuvs_fr, ss_fr)
WriteFace(M, o, f, suvs, spuvs, ss, copy_seams) ==
    LET n == TLAMin(TLAMin(NumLoops(o, f), Len(suvs)),
                    TLAMin(Len(spuvs), Len(ss)))
    IN  [uv   |-> [M.uv EXCEPT ![f] =
                      [c \in 1..NumLoops(o, f) |->
                          IF c <= n THEN suvs[c] ELSE M.uv[f][c]]],
         pin  |-> [M.pin EXCEPT ![f] =
                      [c \in 1..NumLoops(o, f) |->
                          IF c <= n THEN spuvs[c] ELSE M.pin[f][c]]],
         seam |-> IF copy_seams
                  THEN [e \in 1..NumEdges(o) |->
                          IF \E c \in 1..n : FaceEdges(o)[f][c] = e
                          THEN ss[CHOOSE c \in 1..n : FaceEdges(o)[f][c] = e]
                          ELSE M.seam[e]]
                  ELSE M.seam]

Outcome(M, result, msg) ==
    [uv |-> M.uv, pin |-> M.pin, seam |-> M.seam, result |-> result, msg |-> msg]

\* a variant that goes on to the next face where the corner counts differ;
\* C7 tells it from PasteFaces
RECURSIVE PasteFaces_SkipsMismatch(_, _, _, _, _, _)
PasteFaces_SkipsMismatch(M, o, fs, i, store, call) ==
    IF i > Len(fs) THEN Outcome(M, "FINISHED", "")
    ELSE
    LET nu == Len(store.src_uvs)
        np == Len(store.src_pin_uvs)
        ns == Len(store.src_seams)
    IN  IF call.strategy = "N_M" /\ (nu = 0 \/ np = 0 \/ ns = 0)
        THEN Outcome(M, "ERROR", "ZeroDivisionError")
        ELSE IF \/ SrcIndex(call.strategy, i, nu) > nu
                \/ SrcIndex(call.strategy, i, np) > np
                \/ SrcIndex(call.strategy, i, ns) > ns
        THEN Outcome(M, "ERROR", "IndexError")
        ELSE
        LET suv  == store.src_uvs[SrcIndex(call.strategy, i, nu)]
            spuv == store.src_pin_uvs[SrcIndex(call.strategy, i, np)]
            ss   == store.src_seams[SrcIndex(call.strategy, i, ns)]
        IN  IF Len(suv) # NumLoops(o, fs[i])
            THEN PasteFaces_SkipsMismatch(M, o, fs, i + 1, store, call)
            ELSE PasteFaces_SkipsMismatch(
                     WriteFace(M, o, fs[i],
                               FlipRotate(suv, call.flip, call.rotate),
                               FlipRotate(spuv, call.flip, call.rotate),
                               FlipRotate(ss, call.flip, call.rotate),
                               call.copy_seams),
                     o, fs, i + 1, store, call)

\* the "# paste" loop of MUV_CPUVPasteUV.execute from position i on
RECURSIVE PasteFaces(_, _, _, _, _, _)
PasteFaces(M, o, fs, i, store, call) ==
    IF i > Len(fs) THEN Outcome(M, "FINISHED", "")
    ELSE
    LET nu == Len(store.src_uvs)
        np == Len(store.src_pin_uvs)
        ns == Len(store.src_seams)
    IN  IF call.strategy = "N_M" /\ (nu = 0 \/ np = 0 \/ ns = 0)
        THEN Outcome(M, "ERROR", "ZeroDivisionError")
        ELSE IF \/ SrcIndex(call.strategy, i, nu) > nu
                \/ SrcIndex(call.strategy, i, np) > np
                \/ SrcIndex(call.strategy, i, ns) > ns
        THEN Outcome(M, "ERROR", "IndexError")
        ELSE
        LET suv  == store.src_uvs[SrcIndex(call.strategy, i, nu)]
            spuv == store.src_pin_uvs[SrcIndex(call.strategy, i, np)]
            ss   == store.src_seams[SrcIndex(call.strategy, i, ns)]
        IN  IF Len(suv) # NumLoops(o, fs[i])
            THEN Outcome(M, "CANCELLED", "FaceSizeMismatch")
            ELSE PasteFaces(
                     WriteFace(M, o, fs[i],
                               FlipRotate(suv, call.flip, call.rotate),
                               FlipRotate(spuv, call.flip, call.rotate),
                               FlipRotate(ss, call.flip, call.rotate),
                               call.copy_seams),
                     o, fs, i + 1, store, call)

\* a variant in which the loop flips and rotates the stored lists themselves;
\* C8 tells it from StoreAfterPaste
StoreAfterPaste_Aliased(store, call) ==
    [src_uvs     |-> [i \in 1..Len(store.src_uvs) |->
                         FlipRotate(store.src_uvs[i], call.flip, call.rotate)],
     src_pin_uvs |-> [i \in 1..Len(store.src_pin_uvs) |->
                         FlipRotate(store.src_pin_uvs[i], call.flip,
                                    call.rotate)],
     src_seams   |-> [i \in 1..Len(store.src_seams) |->
                         FlipRotate(store.src_seams[i], call.flip,
                                    call.rotate)]]

\* props after the paste: suvs_fr, spuvs_fr and ss_fr are fresh lists, so the
\* reverse(), pop() and insert() of the loop leave the stored lists alone
StoreAfterPaste(store, call) == store

\* the warnings reported before the paste loop is entered; `last` keeps the
\* flip, rotate and copy_seams properties only of a call that entered the loop
PreconditionErrors ==
    {"NothingCopied", "NoAttributeLayer", "NoSelection", "CountMismatch"}

\* a variant without the count check of N_N; C2 tells it from PasteUVOutcome
PasteUVOutcome_NoCountCheck(M, layer, o, store, call) ==
    IF store.src_uvs = <<>> \/ store.src_pin_uvs = <<>>
    THEN Outcome(M, "CANCELLED", "NothingCopied")
    ELSE IF call.uv_map = "" /\ ~layer
    THEN Outcome(M, "CANCELLED", "NoAttributeLayer")
    ELSE IF call.faces = <<>>
    THEN Outcome(M, "CANCELLED", "NoSelection")
    ELSE PasteFaces(M, o, call.faces, 1, store, call)

\* MUV_CPUVPasteUV.execute on the active object o
PasteUVOutcome(M, layer, o, store, call) ==
    IF store.src_uvs = <<>> \/ store.src_pin_uvs = <<>>
    THEN Outcome(M, "CANCELLED", "NothingCopied")
    ELSE IF call.uv_map = "" /\ ~layer
    THEN Outcome(M, "CANCELLED", "NoAttributeLayer")
    ELSE IF call.faces = <<>>
    THEN Outcome(M, "CANCELLED", "NoSelection")
    ELSE IF call.strategy = "N_N" /\ Len(store.src_uvs) # Len(call.faces)
    THEN Outcome(M, "CANCELLED", "CountMismatch")
    ELSE PasteFaces(M, o, call.faces, 1, store, call)

PasteUV(o, uv_map, sel, strategy, flip, rotate, copy_seams) ==
    LET call == [NoCall EXCEPT !.op = "PasteUV", !.obj = o,
                               !.faces = SortedSeq(sel), !.uv_map = uv_map,
                               !.strategy = strategy, !.flip = flip,
                               !.rotate = rotate, !.copy_seams = copy_seams]
    IN  /\ CountPaste
        /\ \E out \in {PasteUVOutcome(ObjMesh(o), hasUV[o], o, cpuv, call)} :
            /\ uv' = [uv EXCEPT ![o] = out.uv]
            /\ pin' = [pin EXCEPT ![o] = out.pin]
            /\ seam' = [seam EXCEPT ![o] = out.seam]
            /\ last' = [(IF out.msg \in PreconditionErrors
                          THEN [call EXCEPT !.flip = FALSE, !.rotate = 0,
                                            !.copy_seams = FALSE]
                          ELSE call)
                         EXCEPT !.result = out.result, !.msg = out.msg]
            /\ rt' = IF /\ rt.stage = 1 /\ out.result = "FINISHED"
                        /\ strategy = "N_N" /\ ~flip /\ rotate = 0 /\ copy_seams
                     THEN [rt EXCEPT !.stage = 2, !.obj = o, !.faces = call.faces]
                     ELSE NoTrip
            /\ cpuv' = StoreAfterPaste(cpuv, call)
            /\ UNCHANGED <<hasUV, cpuv_obj>>

\* ------------------------------------------------------- per-object copy
\* all the faces of an object, in bm.faces order
AllFaces(o) == [f \in 1..NumFaces(o) |-> f]

ObjCopyUV(o, uv_map) ==
    LET call == [NoCall EXCEPT !.op = "ObjCopyUV", !.obj = o,
                               !.faces = AllFaces(o), !.uv_map = uv_map]
    IN  /\ CountCopy
        /\ rt' = NoTrip
        /\ UNCHANGED <<mesh, cpuv>>
        /\ IF uv_map = "" /\ ~hasUV[o]
           THEN /\ cpuv_obj' = cpuv_obj
                /\ last' = [call EXCEPT !.result = "CANCELLED",
                                        !.msg = "NoAttributeLayer"]
           ELSE /\ cpuv_obj' = Capture(o, AllFaces(o))
                /\ last' = [call EXCEPT !.result = "FINISHED"]

\* ------------------------------------------------------ per-object paste
\* the "# paste" loop of MUV_CPUVObjPasteUV.execute from face i on
RECURSIVE ObjPasteFaces(_, _, _, _, _)
ObjPasteFaces(M, o, i, store, copy_seams) ==
    IF i > NumFaces(o) THEN Outcome(M, "FINISHED", "")
    ELSE IF Len(store.src_uvs[i]) # NumLoops(o, i)
    THEN Outcome(M, "CANCELLED", "FaceSizeMismatch")
    ELSE ObjPasteFaces(
             WriteFace(M, o, i, store.src_uvs[i], store.src_pin_uvs[i],
                       store.src_seams[i], copy_seams),
             o, i + 1, store, copy_seams)

\* one iteration of "for o in bpy.data.objects" for a selected mesh object
ObjPasteOne(M, layer, o, store, copy_seams) ==
    IF ~layer
    THEN Outcome(M, "CANCELLED", "NoAttributeLayer")
    ELSE IF Len(store.src_uvs) # NumFaces(o)
    THEN Outcome(M, "CANCELLED", "CountMismatch")
    ELSE ObjPasteFaces(M, o, 1, store, copy_seams)

\* a variant that goes on to the next object; C9 tells it from StopsAt
StopsAt_Never(out) == FALSE

\* what an object's failed paste does to the loop over the objects:
\* "return {'CANCELLED'}"
StopsAt(out) == out.result # "FINISHED"

\* the loop over bpy.data.objects from object o on; W is the meshes so far
RECURSIVE ObjPasteFrom(_, _, _, _, _)
ObjPasteFrom(o, W, objsel, store, copy_seams) ==
    IF o > NumObjs
    THEN [uv |-> W.uv, pin |-> W.pin, seam |-> W.seam,
          result |-> "FINISHED", msg |-> "", at |-> 0]
    ELSE IF o \notin objsel
    THEN ObjPasteFrom(o + 1, W, objsel, store, copy_seams)
    ELSE
    LET out == ObjPasteOne([uv |-> W.uv[o], pin |-> W.pin[o],
                            seam |-> W.seam[o]],
                           hasUV[o], o, store, copy_seams)
        W2  == [uv   |-> [W.uv EXCEPT ![o] = out.uv],
                pin  |-> [W.pin EXCEPT ![o] = out.pin],
                seam |-> [W.seam EXCEPT ![o] = out.seam]]
    IN  IF StopsAt(out)
        THEN [uv |-> W2.uv, pin |-> W2.pin, seam |-> W2.seam,
              result |-> out.result, msg |-> out.msg, at |-> o]
        ELSE ObjPasteFrom(o + 1, W2, objsel, store, copy_seams)

ObjPasteUVOutcome(W, objsel, store, copy_seams) ==
    IF store.src_uvs = <<>> \/ store.src_pin_uvs = <<>>
    THEN [uv |-> W.uv, pin |-> W.pin, seam |-> W.seam,
          result |-> "CANCELLED", msg |-> "NothingCopied", at |-> 0]
    ELSE ObjPasteFrom(1, W, objsel, store, copy_seams)

World == [uv |-> uv, pin |-> pin, seam |-> seam]

ObjPasteUV(objsel, uv_map, copy_seams) ==
    /\ CountPaste
    /\ \E out \in {ObjPasteUVOutcome(World, objsel, cpuv_obj, copy_seams)} :
        /\ uv' = out.uv
        /\ pin' = out.pin
        /\ seam' = out.seam
        /\ last' = [NoCall EXCEPT !.op = "ObjPasteUV", !.objsel = objsel,
                                  !.uv_map = uv_map, !.copy_seams = copy_seams,
                                  !.obj = out.at,
                                  !.result = out.result, !.msg = out.msg]
        /\ rt' = NoTrip
        /\ UNCHANGED <<hasUV, cpuv, cpuv_obj>>

\* ---------------------------------------------------- image-editor copy
\* face.select and every l[uv_layer].select of the face
IEFaces(o, sel, lsel) ==
    SelectSeq(SortedSeq(sel), LAMBDA f : \A c \in 1..NumLoops(o, f) : c \in lsel[f])

\* what MUV_CPUVIECopyUV.execute leaves in props.src_uvs
IECopyStore(store, bundles) == store.src_uvs \o bundles

IECopyUV(o, sel, lsel) ==
    LET fs == IEFaces(o, sel, lsel)
    IN  /\ CountCopy
        /\ hasUV' = [hasUV EXCEPT ![o] = TRUE]
        /\ cpuv' = [cpuv EXCEPT !.src_uvs =
                       IECopyStore(cpuv, [i \in 1..Len(fs) |-> uv[o][fs[i]]])]
        /\ last' = [NoCall EXCEPT !.op = "IECopyUV", !.obj = o, !.faces = fs,
                                  !.result = "FINISHED"]
        /\ rt' = NoTrip
        /\ UNCHANGED <<uv, pin, seam, cpuv_obj>>

\* --------------------------------------------------- image-editor paste
\* atan2(v.y, v.x) of a vector parallel to an axis, in quarter turns
Atan2(v) ==
    CASE v[1] > 0 -> 0
      [] v[1] < 0 -> 2
      [] v[2] > 0 -> 1
      [] v[2] < 0 -> -1
      [] OTHER    -> 0

\* a variant that leaves a negative difference of the angles as it is; C11
\* tells it from Radian
Radian_NoWrap(src_rad, dest_rad) == dest_rad - src_rad

\* the rotation derived from the first pair
Radian(src_rad, dest_rad) ==
    IF src_rad < dest_rad THEN dest_rad - src_rad
    ELSE IF src_rad > dest_rad THEN FullTurn - (src_rad - dest_rad)
    ELSE 0

\* length * (cos(radian + radian_ref), sin(radian + radian_ref)): the vector
\* `base` turned by `radian` quarter turns
Turn(base, radian) ==
    CASE radian % 4 = 0 -> base
      [] radian % 4 = 1 -> <<-base[2], base[1]>>
      [] radian % 4 = 2 -> <<-base[1], -base[2]>>
      [] OTHER          -> <<base[2], -base[1]>>

\* the transform computed by the first loop (it breaks after one pair)
IETransform(suvs, duvs) ==
    LET src_diff  == VSub(suvs[2], suvs[1])
        dest_diff == VSub(duvs[2], duvs[1])
    IN  [src_base  |-> suvs[1],
         dest_base |-> duvs[1],
         radian    |-> Radian(Atan2(src_diff), Atan2(dest_diff)),
         ratio     |-> VLength(dest_diff) \div VLength(src_diff)]

\* a variant that takes the first corner of bundle k itself; C6 tells it
\* from IESrcBase
IESrcBase_Own(T, suvs) == suvs[1]

\* the base the loop subtracts from the corners of source bundle k
IESrcBase(T, suvs) == T.src_base

\* the base the loop adds for destination face k
IEDestBase(T, duvs) == T.dest_base

\* target_uv of one corner
IETarget(T, suv, suvs, duvs) ==
    VAdd(VScale(Turn(VSub(suv, IESrcBase(T, suvs)), T.radian), T.ratio),
         IEDestBase(T, duvs))

\* the UVs of object o after the second loop
IEPasteUVs(U, o, fs, src_uvs) ==
    LET T == IETransform(src_uvs[1], U[fs[1]])
        n == TLAMin(Len(src_uvs), Len(fs))
    IN  [f \in 1..NumFaces(o) |->
            IF \E k \in 1..n : fs[k] = f
            THEN LET k == CHOOSE k \in 1..n : fs[k] = f
                 IN  [c \in 1..NumLoops(o, f) |->
                        IF c <= Len(src_uvs[k])
                        THEN IETarget(T, src_uvs[k][c], src_uvs[k], U[f])
                        ELSE U[f][c]]
            ELSE U[f]]

\* the first pair has reference edges the exact arithmetic covers
IEInDomain(suvs, duvs) ==
    LET src_diff  == VSub(suvs[2], suvs[1])
        dest_diff == VSub(duvs[2], duvs[1])
    IN  /\ AxisAligned(src_diff)
        /\ AxisAligned(dest_diff)
        /\ VLength(src_diff) # 0 => VLength(dest_diff) % VLength(src_diff) = 0

InCoords(U) ==
    \A f \in DOMAIN U : \A c \in DOMAIN U[f] :
        Abs(U[f][c][1]) <= MaxCoord /\ Abs(U[f][c][2]) <= MaxCoord

IEPasteUV(o, sel, lsel) ==
    LET fs   == IEFaces(o, sel, lsel)
        call == [NoCall EXCEPT !.op = "IEPasteUV", !.obj = o, !.faces = fs]
    IN  /\ CountPaste
        /\ hasUV' = [hasUV EXCEPT ![o] = TRUE]
        /\ rt' = NoTrip
        /\ UNCHANGED <<pin, seam, cpuv, cpuv_obj>>
        /\ IF cpuv.src_uvs = <<>> \/ fs = <<>>
           THEN /\ uv' = uv
                /\ last' = [call EXCEPT !.result = "FINISHED"]
           ELSE /\ IEInDomain(cpuv.src_uvs[1], uv[o][fs[1]])
                /\ IF VLength(VSub(cpuv.src_uvs[1][2], cpuv.src_uvs[1][1])) = 0
                   THEN /\ uv' = uv
                        /\ last' = [call EXCEPT !.result = "ERROR",
                                                !.msg = "ZeroDivisionError"]
                   ELSE \E U \in {IEPasteUVs(uv[o], o, fs, cpuv.src_uvs)} :
                        /\ InCoords(U)
                        /\ uv' = [uv EXCEPT ![o] = U]
                        /\ last' = [call EXCEPT !.result = "FINISHED"]

Init ==
    /\ hasUV = [o \in Objs |-> InitHasUV(o)]
    /\ uv = [o \in Objs |-> IF hasUV[o] THEN InitUV(o) ELSE BlankUV(o)]
    /\ pin = [o \in Objs |-> IF hasUV[o] THEN InitPin(o) ELSE BlankPin(o)]
    /\ seam = [o \in Objs |-> InitSeam(o)]
    /\ cpuv = EmptyStore
    /\ cpuv_obj = EmptyStore
    /\ last = NoCall
    /\ rt = NoTrip
    /\ calls = [copies |-> 0, pastes |-> 0]

Next ==
    \/ /\ calls.copies < MaxCopies
       /\ \E o \in Objs : \E m \in UVMapChoices(o) :
          \E sel \in FaceSelections(o) :
              CopyUV(o, m, sel)
    \/ /\ calls.pastes < MaxPastes
       /\ \E o \in Objs : \E m \in {""} : \E sel \in FaceSelections(o) :
          \E st \in {"N_N", "N_M"} : \E fl \in BOOLEAN :
          \E r \in 0..MaxRotate : \E cs \in BOOLEAN :
              PasteUV(o, m, sel, st, fl, r, cs)
    \/ /\ calls.copies < MaxCopies
       /\ \E o \in Objs : \E m \in UVMapChoices(o) : ObjCopyUV(o, m)
    \/ /\ calls.pastes < MaxPastes
       /\ \E objsel \in SUBSET Objs : \E m \in {""} : \E cs \in BOOLEAN :
              ObjPasteUV(objsel, m, cs)
    \/ /\ calls.copies < MaxCopies
       /\ \E o \in Objs : \E sel \in FaceSelections(o) :
          \E lsel \in LoopSelections(o) :
              IECopyUV(o, sel, lsel)
    \/ /\ calls.pastes < MaxPastes
       /\ \E o \in Objs : \E sel \in FaceSelections(o) :
          \E lsel \in LoopSelections(o) :
              IEPasteUV(o, sel, lsel)

Spec == Init /\ [][Next]_vars

\* ===================================================================== claims
\* A store is a CaptureSet: one bundle per captured face in each of the three
\* lists, and the three sequences of a bundle of equal length.
WellFormed(store) ==
    /\ Len(store.src_pin_uvs) = Len(store.src_uvs)
    /\ Len(store.src_seams) = Len(store.src_uvs)
    /\ \A i \in 1..Len(store.src_uvs) :
          /\ Len(store.src_pin_uvs[i]) = Len(store.src_uvs[i])
          /\ Len(store.src_seams[i]) = Len(store.src_uvs[i])

\* the source corner (from 1) that destination corner c (from 1) of a face
\* with n corners shows after an optional flip and r right-rotations
CornerSource(c, n, flip, r) ==
    LET q == ((c - 1) + (n - 1) * r) % n
    IN  IF flip THEN n - q ELSE q + 1

\* the source bundle (from 1) paired with destination position i (from 1)
Paired(strategy, i, n) == IF strategy = "N_N" THEN i ELSE ((i - 1) % n) + 1

\* destination face f of object o shows, in the mesh data U and P, the UVs
\* and pins of bundle b of the face-set store transformed by the call cl
ShowsBundle(U, P, o, f, b, cl) ==
    \A c \in 1..NumLoops(o, f) :
        LET p == CornerSource(c, NumLoops(o, f), cl.flip, cl.rotate)
        IN  /\ U[o][f][c] = cpuv.src_uvs[b][p]
            /\ P[o][f][c] = cpuv.src_pin_uvs[b][p]

\* no destination face behind position i (up to position m) has edge e
LastWriter(o, fs, i, m, e) ==
    \A i2 \in (i + 1)..m : \A c2 \in 1..NumLoops(o, fs[i2]) :
        FaceEdges(o)[fs[i2]][c2] # e

\* the edges of the destination face at position i show, in the seam data S,
\* the seams of bundle b transformed by the call cl, where no later
\* destination face up to position m has written the same edge
ShowsSeams(S, o, fs, i, m, b, cl) ==
    \A c \in 1..NumLoops(o, fs[i]) :
        LET e == FaceEdges(o)[fs[i]][c]
            p == CornerSource(c, NumLoops(o, fs[i]), cl.flip, cl.rotate)
        IN  LastWriter(o, fs, i, m, e) => S[o][e] = cpuv.src_seams[b][p]

\* C1: a finished N_M paste of a CaptureSet of n bundles onto m selected faces
\* has given the i-th destination face (i from 0) the UVs, pins and, with
\* copy_seams, seams of the one bundle i mod n.
C1_WrapPairing ==
    (/\ last.op = "PasteUV" /\ last.result = "FINISHED"
     /\ last.strategy = "N_M" /\ WellFormed(cpuv))
    => \A i \in 1..Len(last.faces) :
          LET b == ((i - 1) % Len(cpuv.src_uvs)) + 1
          IN  /\ ShowsBundle(uv, pin, last.obj, last.faces[i], b, last)
              /\ last.copy_seams =>
                    ShowsSeams(seam, last.obj, last.faces, i,
                               Len(last.faces), b, last)

\* more destination faces than bundles, so the pairing wraps: 3 faces, 2
\* different bundles, paired 0, 1, 0
C1_Witness ==
    /\ last.op = "PasteUV" /\ last.result = "FINISHED"
    /\ last.strategy = "N_M" /\ WellFormed(cpuv)
    /\ Len(cpuv.src_uvs) = 2 /\ Len(last.faces) = 3
    /\ cpuv.src_uvs[1] # cpuv.src_uvs[2]

\* the step is a call of the face-set paste
IsPasteUVStep == last'.op = "PasteUV" /\ calls'.pastes = calls.pastes + 1

\* C2: the face-set paste reports NothingCopied for an empty store, otherwise
\* (the UV layer found) NoSelection for an empty selection, otherwise
\* CountMismatch for N_N with unequal counts, and after each of these
\* reports the mesh is as it was.
C2_PreconditionErrors ==
    [][IsPasteUVStep =>
        LET empty == cpuv.src_uvs = <<>> \/ cpuv.src_pin_uvs = <<>>
            layer == hasUV[last'.obj] \/ last'.uv_map # ""
            nosel == last'.faces = <<>>
        IN  /\ empty => last'.msg = "NothingCopied"
            /\ (~empty /\ layer /\ nosel) => last'.msg = "NoSelection"
            /\ (/\ ~empty /\ layer /\ ~nosel /\ last'.strategy = "N_N"
                /\ Len(cpuv.src_uvs) # Len(last'.faces))
                   => last'.msg = "CountMismatch"
            /\ last'.msg \in {"NothingCopied", "NoSelection", "CountMismatch"}
                   => /\ last'.result = "CANCELLED"
                      /\ UNCHANGED <<hasUV, uv, pin, seam>>
    ]_vars

\* an N_N paste of 3 bundles onto 2 selected faces was refused
C2_Witness ==
    /\ last.op = "PasteUV" /\ last.msg = "CountMismatch"
    /\ Len(cpuv.src_uvs) = 3 /\ Len(last.faces) = 2

\* the corner p(j) of the claim, corners counted from 0
ClaimCorner(j, n, flip, r) ==
    LET q == ((j - (r % n)) + n) % n
    IN  IF flip THEN n - 1 - q ELSE q

\* C5: after a finished face-set paste, corner j of every destination face
\* with n corners holds the UV, the pin and (with copy_seams) the seam of the
\* same corner p(j) of its bundle: p(j) = (j - r) mod n without flip and
\* n - 1 - ((j - r) mod n) with flip, for the rotate count r and for r mod n.
C5_FlipThenRotate ==
    (last.op = "PasteUV" /\ last.result = "FINISHED" /\ WellFormed(cpuv))
    => \A i \in 1..Len(last.faces) :
          LET o == last.obj
              f == last.faces[i]
              n == NumLoops(o, f)
              b == Paired(last.strategy, i, Len(cpuv.src_uvs))
          IN  \A j \in 0..(n - 1) :
                LET p == ClaimCorner(j, n, last.flip, last.rotate) + 1
                    e == FaceEdges(o)[f][j + 1]
                IN  /\ uv[o][f][j + 1] = cpuv.src_uvs[b][p]
                    /\ pin[o][f][j + 1] = cpuv.src_pin_uvs[b][p]
                    /\ (last.copy_seams
                        /\ LastWriter(o, last.faces, i, Len(last.faces), e))
                          => seam[o][e] = cpuv.src_seams[b][p]

\* a flipped paste rotated by a full turn of a triangle next to a quad
C5_Witness ==
    /\ last.op = "PasteUV" /\ last.result = "FINISHED" /\ WellFormed(cpuv)
    /\ last.flip /\ last.rotate = 3 /\ last.copy_seams
    /\ \E i, k \in 1..Len(last.faces) :
          /\ NumLoops(last.obj, last.faces[i]) = 3
          /\ NumLoops(last.obj, last.faces[k]) = 4

\* the destination position i has another corner count than its bundle
Mismatch(o, fs, strategy, i) ==
    Len(cpuv.src_uvs[Paired(strategy, i, Len(cpuv.src_uvs))])
        # NumLoops(o, fs[i])

\* C7: when a face-set paste of a CaptureSet passes its precondition checks
\* and position k is the first whose bundle has another corner count than
\* the destination face, the call reports FaceSizeMismatch, the faces before
\* k show what was pasted and the UVs and pins of the faces from k on are as
\* they were.
C7_PartialPaste ==
    [][(/\ IsPasteUVStep /\ WellFormed(cpuv)
        /\ last'.msg \notin PreconditionErrors
        /\ \E i \in 1..Len(last'.faces) :
              Mismatch(last'.obj, last'.faces, last'.strategy, i))
       => LET o  == last'.obj
              fs == last'.faces
              k  == CHOOSE i \in 1..Len(fs) :
                       /\ Mismatch(o, fs, last'.strategy, i)
                       /\ \A h \in 1..(i - 1) :
                             ~Mismatch(o, fs, last'.strategy, h)
          IN  /\ last'.result = "CANCELLED"
              /\ last'.msg = "FaceSizeMismatch"
              /\ \A i \in 1..(k - 1) :
                    /\ ShowsBundle(uv', pin', o, fs[i],
                          Paired(last'.strategy, i, Len(cpuv.src_uvs)), last')
                    /\ last'.copy_seams =>
                          ShowsSeams(seam', o, fs, i, k - 1,
                             Paired(last'.strategy, i, Len(cpuv.src_uvs)),
                             last')
              /\ \A i \in k..Len(fs) :
                    /\ uv'[o][fs[i]] = uv[o][fs[i]]
                    /\ pin'[o][fs[i]] = pin[o][fs[i]]
              /\ \A f \in 1..NumFaces(o) :
                    (\A i \in 1..Len(fs) : fs[i] # f)
                       => uv'[o][f] = uv[o][f] /\ pin'[o][f] = pin[o][f]
    ]_vars

\* a paste stopped at its third face after changing the first two
C7_Witness ==
    /\ last.op = "PasteUV" /\ last.msg = "FaceSizeMismatch"
    /\ WellFormed(cpuv) /\ Len(last.faces) = 3
    /\ Len(cpuv.src_uvs[1]) = NumLoops(last.obj, last.faces[1])
    /\ uv[last.obj][last.faces[1]] # InitUV(last.obj)[last.faces[1]]
    /\ uv[last.obj][last.faces[2]] # InitUV(last.obj)[last.faces[2]]
    /\ uv[last.obj][last.faces[3]] = InitUV(last.obj)[last.faces[3]]

\* the last destination position (up to m) and corner lying on edge e
LastOnEdge(o, fs, m, e) ==
    CHOOSE ic \in (1..m) \X (1..4) :
        /\ ic[2] <= NumLoops(o, fs[ic[1]])
        /\ FaceEdges(o)[fs[ic[1]]][ic[2]] = e
        /\ LastWriter(o, fs, ic[1], m, e)

\* C3 as stated: Capture(F), an N_N paste onto F' without flip or rotation
\* and with copy_seams, then Capture(F') leaves the store as the first
\* capture left it, in UVs, pins and seams.
C3_RoundTripAll == rt.stage = 3 => cpuv = rt.B

\* C3 amended: after that round trip the store has the UVs and pins of the
\* first capture, and the seam recaptured at a corner is the one the first
\* capture holds for the last destination corner on the same edge: its own
\* where no later destination face shares the edge.
C3_RoundTrip ==
    rt.stage = 3
    => /\ cpuv.src_uvs = rt.B.src_uvs
       /\ cpuv.src_pin_uvs = rt.B.src_pin_uvs
       /\ Len(cpuv.src_seams) = Len(rt.B.src_seams)
       /\ \A i \in 1..Len(rt.faces) :
             /\ Len(cpuv.src_seams[i]) = Len(rt.B.src_seams[i])
             /\ \A c \in 1..NumLoops(rt.obj, rt.faces[i]) :
                   LET e  == FaceEdges(rt.obj)[rt.faces[i]][c]
                       ic == LastOnEdge(rt.obj, rt.faces, Len(rt.faces), e)
                   IN  /\ cpuv.src_seams[i][c] = rt.B.src_seams[ic[1]][ic[2]]
                       /\ LastWriter(rt.obj, rt.faces, i, Len(rt.faces), e)
                             => cpuv.src_seams[i][c] = rt.B.src_seams[i][c]

\* a round trip over two destination faces that changed the destination
C3_Witness ==
    /\ rt.stage = 3 /\ Len(rt.faces) = 2
    /\ uv[rt.obj][rt.faces[1]] # InitUV(rt.obj)[rt.faces[1]]
    /\ FaceSeams(seam, rt.obj, rt.faces[2])
          # FaceSeams([o \in Objs |-> InitSeam(o)], rt.obj, rt.faces[2])

\* the step is a call of one of the copy operators
IsCopyStep ==
    /\ last'.op \in {"CopyUV", "ObjCopyUV", "IECopyUV"}
    /\ calls'.copies = calls.copies + 1

\* C4: a finished copy leaves in the store it writes exactly the bundles of
\* the faces it captured, in iteration order.
C4_CaptureReplaces ==
    [][(IsCopyStep /\ last'.result = "FINISHED")
       => LET o  == last'.obj
              fs == last'.faces
              st == IF last'.op = "ObjCopyUV" THEN cpuv_obj' ELSE cpuv'
          IN  /\ st.src_uvs = [i \in 1..Len(fs) |-> uv[o][fs[i]]]
              /\ last'.op # "IECopyUV"
                    => /\ st.src_pin_uvs = [i \in 1..Len(fs) |-> pin[o][fs[i]]]
                       /\ st.src_seams =
                             [i \in 1..Len(fs) |-> FaceSeams(seam, o, fs[i])]
    ]_vars

\* the step is a call of the image-editor paste that wrote UVs
IsIEPasteStep ==
    /\ last'.op = "IEPasteUV" /\ calls'.pastes = calls.pastes + 1
    /\ last'.result = "FINISHED"
    /\ cpuv.src_uvs # <<>> /\ last'.faces # <<>>

IsPasteStep ==
    /\ last'.op \in {"PasteUV", "ObjPasteUV", "IEPasteUV"}
    /\ calls'.pastes = calls.pastes + 1

\* C8: every paste call, finished or not, leaves both stores as they were,
\* and the same call on the mesh it has left writes the same values again.
C8_PasteReadsOnly ==
    [][IsPasteStep
       => /\ cpuv' = cpuv
          /\ cpuv_obj' = cpuv_obj
          /\ last'.op = "PasteUV"
                => LET o   == last'.obj
                       out == PasteUVOutcome(
                                  [uv |-> uv'[o], pin |-> pin'[o],
                                   seam |-> seam'[o]],
                                  hasUV'[o], o, cpuv', last')
                   IN  /\ out.uv = uv'[o] /\ out.pin = pin'[o]
                       /\ out.seam = seam'[o]
                       /\ out.result = last'.result /\ out.msg = last'.msg
          /\ last'.op = "ObjPasteUV"
                => LET out == ObjPasteUVOutcome(
                                  [uv |-> uv', pin |-> pin', seam |-> seam'],
                                  last'.objsel, cpuv_obj', last'.copy_seams)
                   IN  /\ out.uv = uv' /\ out.pin = pin' /\ out.seam = seam'
                       /\ out.result = last'.result
          /\ (/\ last'.op = "IEPasteUV" /\ last'.result = "FINISHED"
              /\ cpuv.src_uvs # <<>> /\ last'.faces # <<>>)
                => IEPasteUVs(uv'[last'.obj], last'.obj, last'.faces,
                              cpuv'.src_uvs) = uv'[last'.obj]
    ]_vars

\* a finished paste that flipped and rotated the bundles it wrote
C8_Witness ==
    /\ last.op = "PasteUV" /\ last.result = "FINISHED"
    /\ last.flip /\ last.rotate > 0
    /\ uv[last.obj] # InitUV(last.obj)

\* the step is a call of the per-object paste with something copied
IsObjPasteStep ==
    /\ last'.op = "ObjPasteUV" /\ calls'.pastes = calls.pastes + 1
    /\ cpuv_obj.src_uvs # <<>>

\* the per-object paste cannot paste onto object o
ObjFails(o) ==
    \/ ~hasUV[o]
    \/ Len(cpuv_obj.src_uvs) # NumFaces(o)
    \/ \E f \in 1..NumFaces(o) : Len(cpuv_obj.src_uvs[f]) # NumLoops(o, f)

\* object o shows the whole per-object store, face by face
ObjShowsStore(U, P, S, o, copy_seams) ==
    /\ \A f \in 1..NumFaces(o) : \A c \in 1..NumLoops(o, f) :
          /\ U[o][f][c] = cpuv_obj.src_uvs[f][c]
          /\ P[o][f][c] = cpuv_obj.src_pin_uvs[f][c]
          /\ (copy_seams
              /\ LastWriter(o, AllFaces(o), f, NumFaces(o), FaceEdges(o)[f][c]))
                => S[o][FaceEdges(o)[f][c]] = cpuv_obj.src_seams[f][c]
    /\ ~copy_seams => S[o] = seam[o]

ObjUntouched(o) == uv'[o] = uv[o] /\ pin'[o] = pin[o] /\ seam'[o] = seam[o]

\* C9: the per-object paste goes through the selected objects in order and
\* pastes the whole store onto each; at the first object that has no UV
\* layer, another face count or a face with another corner count it stops
\* cancelled: the selected objects before it show the store, the objects
\* after it and the unselected objects are as they were.
C9_ObjPasteStops ==
    [][IsObjPasteStep
       => LET sel == last'.objsel
              bad == {o \in sel : ObjFails(o)}
          IN  /\ \A o \in Objs \ sel : ObjUntouched(o)
              /\ bad = {}
                   => /\ last'.result = "FINISHED"
                      /\ \A o \in sel :
                            ObjShowsStore(uv', pin', seam', o,
                                          last'.copy_seams)
              /\ bad # {}
                   => LET k == CHOOSE o \in bad : \A h \in bad : o <= h
                      IN  /\ last'.result = "CANCELLED"
                          /\ \A o \in sel :
                                o < k => ObjShowsStore(uv', pin', seam', o,
                                                       last'.copy_seams)
                          /\ \A o \in Objs : o > k => ObjUntouched(o)
    ]_vars

\* a paste onto objects 1, 2 and 3 that changed object 1, stopped at object
\* 2, which has no UV layer, and did not reach object 3, which the store fits
C9_Witness ==
    /\ last.op = "ObjPasteUV" /\ last.result = "CANCELLED" /\ last.obj = 2
    /\ {1, 2, 3} \subseteq last.objsel
    /\ uv[1] # InitUV(1) /\ uv[1] = cpuv_obj.src_uvs
    /\ Len(cpuv_obj.src_uvs) = NumFaces(3)
    /\ ~hasUV[2] /\ uv[3] = InitUV(3)

\* C10: in both stores the three lists hold the same number of bundles and
\* the three sequences of every bundle have the same length.
C10_StoresWellFormed == WellFormed(cpuv) /\ WellFormed(cpuv_obj)

\* the values atan2 takes on the vectors parallel to an axis
AtanRange == {Atan2(Dir(d)) : d \in 0..3}

\* the rotation of the claim for the angles of the first pair
ClaimRotation(srcAngle, destAngle) ==
    IF srcAngle < destAngle THEN destAngle - srcAngle
    ELSE IF srcAngle > destAngle THEN FullTurn - (srcAngle - destAngle)
    ELSE 0

\* C11: the rotation the image-editor paste computes from the first pair is
\* destAngle - srcAngle, 2*pi - (srcAngle - destAngle) or 0 as srcAngle is
\* less than, greater than or equal to destAngle; for every pair of atan2
\* results it lies in [0, 2*pi) and is congruent to destAngle - srcAngle
\* modulo 2*pi; the paste writes scale * Rotate(rotation, c - src[0]) +
\* dest[0] with it.
C11_Rotation ==
    [][IsIEPasteStep
       => LET o   == last'.obj
              fs  == last'.faces
              s0  == cpuv.src_uvs[1]
              d0  == uv[o][fs[1]]
              sa  == Atan2(VSub(s0[2], s0[1]))
              da  == Atan2(VSub(d0[2], d0[1]))
              T   == IETransform(s0, d0)
              sc  == VLength(VSub(d0[2], d0[1])) \div VLength(VSub(s0[2], s0[1]))
          IN  /\ T.radian = ClaimRotation(sa, da)
              /\ T.radian \in 0..(FullTurn - 1)
              /\ (T.radian - (da - sa)) % FullTurn = 0
              /\ T.ratio = sc
              /\ \A s \in AtanRange : \A d \in AtanRange :
                    /\ Radian(s, d) = ClaimRotation(s, d)
                    /\ Radian(s, d) \in 0..(FullTurn - 1)
                    /\ (Radian(s, d) - (d - s)) % FullTurn = 0
              /\ \A c \in 1..TLAMin(Len(s0), NumLoops(o, fs[1])) :
                    uv'[o][fs[1]][c] =
                        VAdd(VScale(Turn(VSub(s0[c], s0[1]),
                                         ClaimRotation(sa, da)), sc),
                             d0[1])
    ]_vars

\* the claim's example: the source edge at angle 0 with length 1, the
\* destination edge at angle pi/2 with length 2, and the source corner at
\* offset (1, 0) written to dest[0] + (0, 2), in a paste that changed the
\* object's UVs
C11_Witness ==
    /\ last.op = "IEPasteUV" /\ last.result = "FINISHED"
    /\ last.faces # <<>> /\ cpuv.src_uvs # <<>>
    /\ VSub(cpuv.src_uvs[1][2], cpuv.src_uvs[1][1]) = <<1, 0>>
    /\ uv[last.obj] # InitUV(last.obj)
    /\ uv[last.obj][last.faces[1]][1] = InitUV(last.obj)[last.faces[1]][1]
    /\ VSub(InitUV(last.obj)[last.faces[1]][2],
            InitUV(last.obj)[last.faces[1]][1]) = <<0, 2>>
    /\ uv[last.obj][last.faces[1]][2]
          = VAdd(uv[last.obj][last.faces[1]][1], <<0, 2>>)

\* the step is a call of the face-set copy
IsCopyUVStep == last'.op = "CopyUV" /\ calls'.copies = calls.copies + 1

\* C12: a face-set copy that reports NoSelection leaves the store empty,
\* whatever an earlier capture had left in it, and the face-set paste called
\* next reports NothingCopied; a face-set copy that reports NoAttributeLayer
\* (default layer asked for, the object has none) leaves the store as it was.
C12_FailedCapture ==
    [][/\ IsCopyUVStep
          => LET layer == hasUV[last'.obj] \/ last'.uv_map # ""
             IN  /\ ~layer <=> last'.msg = "NoAttributeLayer"
                 /\ (layer /\ last'.faces = <<>>) <=> last'.msg = "NoSelection"
                 /\ last'.msg = "NoSelection"
                       => /\ last'.result = "CANCELLED"
                          /\ cpuv' = EmptyStore
                 /\ last'.msg = "NoAttributeLayer"
                       => /\ last'.result = "CANCELLED"
                          /\ cpuv' = cpuv
       /\ (last.op = "CopyUV" /\ last.msg = "NoSelection" /\ IsPasteUVStep)
          => /\ last'.result = "CANCELLED"
             /\ last'.msg = "NothingCopied"
             /\ UNCHANGED <<hasUV, uv, pin, seam>>
    ]_vars

\* a face-set copy without selection has emptied a store that held bundles
C12_Witness ==
    /\ last.op = "CopyUV" /\ last.msg = "NoSelection"
    /\ rt.stage = 0 /\ WellFormed(rt.B) /\ rt.B.src_uvs # <<>>
    /\ cpuv = EmptyStore

====
